---------------------------- MODULE Spec2Model ----------------------------
(***************************************************************************)
(* Model of scripts/monitor.py: the serial monitor (class ESPMonitor and   *)
(* main).  The main thread connects, runs the read/assemble/dispatch loop  *)
(* and shuts down; the log writer thread drains log_queue into the log     *)
(* file.  Bytes and characters are tokens: "LF" is '\n', "CR" is '\r',     *)
(* "a" and "E" are ASCII letters, "C3" "A9" is the UTF-8 encoding of       *)
(* U+00E9, and "U+FFFD" is the replacement character.                      *)
(***************************************************************************)
EXTENDS Naturals, Sequences, FiniteSets

\* Longest byte stream the device sends in a run without a log file.
MaxStream == 3

\* Longest byte stream the device sends in a run with a log file.
MaxLogStream == 4

\* Longest byte stream of a run with an operator thread.
MaxApiStream == 2

\* send_command calls an operator thread makes during one run.
MaxCalls == 1

\* Most disconnect() calls the operator thread makes.
MaxDisc == 2

\* Longest byte stream of a run with malformed input and a log file.
MaxBadStream == 3

\* Most monitor() calls made on one instance.
MaxSessions == 2

None == "None"

Byte == {"LF", "CR", "a", "E", "C3", "A9"}

\* The bytes of the runs with a log file: two letters and the terminator.
LogByte == {"LF", "a", "E"}

SeqsUpTo(S, n) == UNION {[1..k -> S] : k \in 0..n}

\* Values of --filter and --command on the command line (None: not given).
FilterArgs == {None, <<>>, <<"E">>, <<"(">>}
CommandArgs == {<<>>, <<"a">>}

\* The runs checked: monitoring without a log file over every byte, with a
\* log file over LogByte, and runs given --command.
ConsoleRuns ==
    [command : {None}, log_file : {FALSE}, filter : FilterArgs,
     show_timestamps : {FALSE}, stream : SeqsUpTo(Byte, MaxStream)]

LoggedRuns ==
    [command : {None}, log_file : {TRUE}, filter : FilterArgs \ {<<>>},
     show_timestamps : {TRUE}, stream : SeqsUpTo(LogByte, MaxLogStream)]

CommandRuns ==
    [command : CommandArgs, log_file : BOOLEAN, filter : {None, <<"(">>},
     show_timestamps : {TRUE}, stream : {<<>>, <<"E", "LF">>}]

Runs == ConsoleRuns \cup LoggedRuns \cup CommandRuns

\* Logged runs whose input holds bytes that are not valid UTF-8 where they
\* stand ("A9" alone, "C3" not followed by "A9").
DecodeRuns ==
    [command : {None}, log_file : {TRUE}, filter : {None},
     show_timestamps : {FALSE},
     stream : SeqsUpTo({"C3", "A9", "a", "LF"}, MaxBadStream)]
    \cup CommandRuns

\* The runs checked with an operator thread beside the main thread.
ApiRuns ==
    [command : {None}, log_file : BOOLEAN, filter : {None},
     show_timestamps : {TRUE}, stream : SeqsUpTo({"a", "LF"}, MaxApiStream)]
    \cup CommandRuns

VARIABLES
    command,          \* args.command
    log_file,         \* self.log_file is set (args.log given)
    filter_arg,       \* args.filter
    filter_pattern,   \* self.filter_pattern: None or the compiled pattern
    show_timestamps,  \* not args.no_timestamps
    stream,           \* bytes the device has still to deliver
    pc,               \* position of the main thread
    serial_conn,      \* self.serial_conn: "none", "open" or "closed"
    running,          \* self.running
    buffer,           \* monitor()'s local buffer (decoded text)
    console,          \* the formatted lines printed so far
    msgs,             \* the status messages printed so far
    log_queue,        \* self.log_queue
    log_thread,       \* position of the log writer thread
    log_entry,        \* log_writer()'s local log_entry
    file_state,       \* the log file handle: "unopened", "open", "closed"
    file,             \* entries written to the log file
    durable,          \* how many of them have been flushed
    exit_code,        \* the process's exit code: {} while it runs, then {c}
    consumed,         \* history: the bytes read from the port, in order
    enqueued,         \* history: every entry put on log_queue
    assembled,        \* history: every complete line taken off the buffer
    port_ops,         \* history: <<operation, serial_conn at the time>>
    tx,               \* history: payloads written to the port
    monitor_ret,      \* what monitor() returned: {} until it returns, then {v}
    cmd_pc,           \* position of an operator thread in send_command
    cmd_calls,        \* send_command calls that thread has made
    cmd_result,       \* what its last send_command returned: {} or {v}
    api_disc,         \* disconnect() calls that thread has made
    steps,            \* history: the shutdown steps monitor() has run
    session,          \* number of the monitor() call on this instance
    prev_thread,      \* log thread of an earlier call that outlived its join
    prev_entry        \* the entry that thread holds

vars == <<command, log_file, filter_arg, filter_pattern, show_timestamps,
          stream, pc,
          serial_conn, running, buffer, console, msgs, log_queue, log_thread,
          log_entry, file_state, file, durable, exit_code, consumed, enqueued,
          assembled, port_ops, tx, monitor_ret, cmd_pc, cmd_calls,
          cmd_result, api_disc, steps, session, prev_thread, prev_entry>>

config == <<command, log_file, filter_arg, filter_pattern, show_timestamps>>
logvars == <<log_thread, log_entry, file_state, file, durable>>
readvars == <<stream, buffer, console, log_queue, consumed, enqueued,
             assembled>>
cmdvars == <<cmd_pc, cmd_calls, cmd_result, api_disc>>

sessvars == <<session, prev_thread, prev_entry>>

-----------------------------------------------------------------------------
(* Pure functions *)

\* bytes.decode('utf-8', errors='replace') on one chunk.
RECURSIVE Decode(_)
Decode(b) ==
    IF b = <<>> THEN <<>>
    ELSE IF Head(b) = "C3"
         THEN IF Len(b) >= 2 /\ b[2] = "A9"
              THEN <<"U+E9">> \o Decode(SubSeq(b, 3, Len(b)))
              ELSE <<"U+FFFD">> \o Decode(Tail(b))
    ELSE IF Head(b) = "A9" THEN <<"U+FFFD">> \o Decode(Tail(b))
    ELSE <<Head(b)>> \o Decode(Tail(b))

\* str.encode('utf-8') of command text.
RECURSIVE Encode(_)
Encode(s) ==
    IF s = <<>> THEN <<>>
    ELSE IF Head(s) = "U+E9" THEN <<"C3", "A9">> \o Encode(Tail(s))
    ELSE <<Head(s)>> \o Encode(Tail(s))

\* re.compile(filter_pattern) if filter_pattern else None
Compile(arg) == IF arg = None \/ arg = <<>> THEN None ELSE arg

\* re.compile raises re.error on a malformed pattern; of the patterns used
\* here the malformed ones are those with an unclosed parenthesis.
Malformed(arg) ==
    /\ arg # None
    /\ \E i \in 1..Len(arg) : arg[i] = "("

\* pattern.search(line) for a literal pattern: it occurs somewhere in line.
Search(pattern, line) ==
    \E i \in 1..(Len(line) + 1 - Len(pattern)) :
        SubSeq(line, i, i + Len(pattern) - 1) = pattern

should_display(line) ==
    IF filter_pattern = None THEN TRUE ELSE Search(filter_pattern, line)

format_line(line, timestamp) ==
    IF timestamp THEN <<"[ts] ">> \o line ELSE line

HasLF(s) == \E i \in 1..Len(s) : s[i] = "LF"

FirstLF(s) == CHOOSE i \in 1..Len(s) :
                  s[i] = "LF" /\ \A j \in 1..(i - 1) : s[j] # "LF"

\* str.rstrip('\r')
RECURSIVE RStripCR(_)
RStripCR(s) ==
    IF s # <<>> /\ s[Len(s)] = "CR" THEN RStripCR(SubSeq(s, 1, Len(s) - 1))
    ELSE s

\* The test of line 104: the line is printed and queued.
Forwarded(line) == line # <<>> /\ should_display(line)

\* The inner loop of monitor(): split off complete lines while the buffer
\* holds a terminator.  out collects the formatted lines that were printed,
\* lines every line the loop took off the buffer.
RECURSIVE ProcessLines(_, _, _)
ProcessLines(buf, out, lines) ==
    IF HasLF(buf)
    THEN LET i == FirstLF(buf)
             line == RStripCR(SubSeq(buf, 1, i - 1))
             rest == SubSeq(buf, i + 1, Len(buf))
         IN  ProcessLines(rest,
                 IF Forwarded(line)
                 THEN Append(out, format_line(line, show_timestamps))
                 ELSE out,
                 Append(lines, line))
    ELSE [out |-> out, lines |-> lines, buffer |-> buf]

\* formatted_line + '\n' for each printed line
Entries(lines) == [i \in 1..Len(lines) |-> Append(lines[i], "LF")]

\* queue.Queue() is built with maxsize 0: no capacity limit.
QueueMaxSize == 0

\* A faulty variant: the queue built with a capacity of one.
QueueMaxSizeOne == QueueMaxSize + 1

\* The capacity the queue was built with.
QueueCapacity == QueueMaxSize

\* Queue.put blocks while the queue is full.
PutBlocks(q, n) == QueueCapacity > 0 /\ Len(q) + n > QueueCapacity

-----------------------------------------------------------------------------
Start(runs) ==
    /\ \E r \in runs :
           /\ command = r.command
           /\ log_file = r.log_file
           /\ filter_arg = r.filter
           /\ show_timestamps = r.show_timestamps
           /\ stream = r.stream
    /\ filter_pattern = None
    /\ pc = "main"
    /\ serial_conn = "none"
    /\ running = FALSE
    /\ buffer = <<>>
    /\ console = <<>>
    /\ msgs = {}
    /\ log_queue = <<>>
    /\ log_thread = "none"
    /\ log_entry = None
    /\ file_state = "unopened"
    /\ file = <<>>
    /\ durable = 0
    /\ exit_code = {}
    /\ consumed = <<>>
    /\ enqueued = <<>>
    /\ assembled = <<>>
    /\ port_ops = {}
    /\ tx = <<>>
    /\ monitor_ret = {}
    /\ cmd_pc = "idle"
    /\ cmd_calls = 0
    /\ cmd_result = {}
    /\ api_disc = 0
    /\ steps = {}
    /\ session = 1
    /\ prev_thread = "none"
    /\ prev_entry = None

Init == Start(Runs)

InitApi == Start(ApiRuns)

InitDecode == Start(DecodeRuns)

\* if args.command: an empty command text selects monitoring mode.
CommandMode == command # None /\ command # <<>>

-----------------------------------------------------------------------------
(* Main thread: main() and ESPMonitor.monitor() *)

\* main() reaches monitor.connect(), directly (--command) or through
\* monitor.monitor().
\* main() builds the ESPMonitor; __init__ compiles the filter.
Construct ==
    /\ pc = "main"
    /\ ~Malformed(filter_arg)
    /\ filter_pattern' = Compile(filter_arg)
    /\ pc' = "idle"
    /\ UNCHANGED <<command, log_file, filter_arg, show_timestamps, readvars,
                   logvars, cmdvars, serial_conn, running, msgs, exit_code,
                   port_ops, tx, monitor_ret, steps, sessvars>>

\* A variant that lets a malformed filter through to connect().
ConstructFailLate ==
    /\ pc = "main"
    /\ Malformed(filter_arg)
    /\ msgs' = msgs \cup {"filter_error"}
    /\ pc' = "connecting"
    /\ UNCHANGED <<config, readvars, logvars, cmdvars, serial_conn, running,
                   exit_code, port_ops, tx, monitor_ret, steps, sessvars>>

\* re.error leaves __init__ and main() uncaught: traceback, exit status 1.
ConstructFail ==
    /\ pc = "main"
    /\ Malformed(filter_arg)
    /\ msgs' = msgs \cup {"filter_error"}
    /\ exit_code' = {1}
    /\ pc' = "exited"
    /\ UNCHANGED <<config, readvars, logvars, cmdvars, serial_conn, running,
                   port_ops, tx, monitor_ret, steps, sessvars>>

Call ==
    /\ pc = "idle"
    /\ pc' = "connecting"
    /\ UNCHANGED <<config, readvars, logvars, cmdvars, serial_conn, running,
                   msgs, exit_code, port_ops, tx, monitor_ret, steps,
                   sessvars>>

\* connect(): serial.Serial(...) succeeds.
ConnectOk ==
    /\ pc = "connecting"
    /\ serial_conn' = "open"
    /\ msgs' = msgs \cup {"connected"}
    /\ pc' = IF CommandMode THEN "cmd_send" ELSE "connected"
    /\ UNCHANGED <<config, readvars, logvars, cmdvars, running, exit_code,
                   port_ops, tx, monitor_ret, steps, sessvars>>

\* A faulty variant: the failure is reported, but the result of connect()
\* is ignored and monitor() and main() go on.
ConnectFailIgnored ==
    /\ pc = "connecting"
    /\ msgs' = msgs \cup {"connect_failed"}
    /\ pc' = IF CommandMode THEN "cmd_disconnect" ELSE "connected"
    /\ UNCHANGED <<config, readvars, logvars, cmdvars, serial_conn, running,
                   exit_code, port_ops, tx, monitor_ret, steps, sessvars>>

\* connect(): serial.Serial(...) raises SerialException; connect() returns
\* False, monitor() returns False, main() falls through to its end.
ConnectFail ==
    /\ pc = "connecting"
    /\ msgs' = msgs \cup {"connect_failed"}
    /\ monitor_ret' = IF CommandMode THEN monitor_ret ELSE {FALSE}
    /\ pc' = "returned"
    /\ UNCHANGED <<config, readvars, logvars, cmdvars, serial_conn, running,
                   exit_code, port_ops, tx, steps, sessvars>>

\* self.running = True
SetRunning ==
    /\ pc = "connected"
    /\ running' = TRUE
    /\ pc' = "starting"
    /\ UNCHANGED <<config, readvars, logvars, cmdvars, serial_conn, msgs,
                   exit_code, port_ops, tx, monitor_ret, steps, sessvars>>

\* The log writer thread is started when a log file is configured; the
\* main thread then enters the try block.
StartLogThread ==
    /\ pc = "starting"
    /\ log_thread' = IF log_file THEN "open" ELSE log_thread
    /\ msgs' = IF log_file THEN msgs \cup {"logging_to"} ELSE msgs
    /\ pc' = "loop"
    /\ UNCHANGED <<config, readvars, cmdvars, log_entry, file_state, file,
                   durable, serial_conn, running, exit_code, port_ops, tx,
                   monitor_ret, steps, sessvars>>

\* What one iteration of the read loop does with a chunk of n bytes.
Iteration(n) ==
    LET r == ProcessLines(buffer \o Decode(SubSeq(stream, 1, n)), <<>>, <<>>)
    IN  [out |-> r.out, lines |-> r.lines, buffer |-> r.buffer,
         entries |-> IF log_file THEN Entries(r.out) ELSE <<>>]

\* The iteration over n bytes can run to its end: the loop is running, the
\* bytes are there, and no put blocks.
CanRead(n) ==
    /\ pc = "loop"
    /\ running
    /\ serial_conn = "open"
    /\ n \in 1..Len(stream)
    /\ ~PutBlocks(log_queue, Len(Iteration(n).entries))

\* A variant with a strict decode: a chunk that is not valid UTF-8 raises
\* UnicodeDecodeError and the handler of lines 112-114 skips it.
LoopReadStrict(n) ==
    /\ CanRead(n)
    /\ stream' = SubSeq(stream, n + 1, Len(stream))
    /\ consumed' = consumed \o SubSeq(stream, 1, n)
    /\ port_ops' = port_ops \cup {<<"read", serial_conn>>}
    /\ IF \E i \in 1..Len(Decode(SubSeq(stream, 1, n))) :
              Decode(SubSeq(stream, 1, n))[i] = "U+FFFD"
       THEN UNCHANGED <<buffer, console, log_queue, enqueued, assembled>>
       ELSE /\ buffer' = Iteration(n).buffer
            /\ console' = console \o Iteration(n).out
            /\ log_queue' = log_queue \o Iteration(n).entries
            /\ enqueued' = enqueued \o Iteration(n).entries
            /\ assembled' = assembled \o Iteration(n).lines
    /\ UNCHANGED <<config, logvars, cmdvars, pc, serial_conn, running, msgs,
                   exit_code, tx, monitor_ret, steps, sessvars>>

\* One iteration of the read loop with in_waiting = n > 0: read n bytes,
\* decode them, append to the buffer, print and queue every complete line.
LoopRead(n) ==
    /\ CanRead(n)
    /\ stream' = SubSeq(stream, n + 1, Len(stream))
    /\ consumed' = consumed \o SubSeq(stream, 1, n)
    /\ buffer' = Iteration(n).buffer
    /\ console' = console \o Iteration(n).out
    /\ log_queue' = log_queue \o Iteration(n).entries
    /\ enqueued' = enqueued \o Iteration(n).entries
    /\ assembled' = assembled \o Iteration(n).lines
    /\ port_ops' = port_ops \cup {<<"read", serial_conn>>}
    /\ UNCHANGED <<config, logvars, cmdvars, pc, serial_conn, running, msgs,
                   exit_code, tx, monitor_ret, steps, sessvars>>

\* One iteration with in_waiting = 0: nothing but the sleep.
LoopIdle ==
    /\ pc = "loop"
    /\ running
    /\ serial_conn = "open"
    /\ port_ops' = port_ops \cup {<<"read", serial_conn>>}
    /\ UNCHANGED <<config, readvars, logvars, cmdvars, pc, serial_conn,
                   running, msgs, exit_code, tx, monitor_ret, steps,
                   sessvars>>

\* in_waiting or read raises (device unplugged): except Exception.
LoopIOError ==
    /\ pc = "loop"
    /\ running
    /\ port_ops' = port_ops \cup {<<"read", serial_conn>>}
    /\ msgs' = msgs \cup {"monitor_error"}
    /\ pc' = "finally"
    /\ UNCHANGED <<config, readvars, logvars, cmdvars, serial_conn, running,
                   exit_code, tx, monitor_ret, steps, sessvars>>

\* while self.running: the flag is found cleared.
LoopExit ==
    /\ pc = "loop"
    /\ ~running
    /\ pc' = "finally"
    /\ UNCHANGED <<config, readvars, logvars, cmdvars, serial_conn, running,
                   msgs, exit_code, port_ops, tx, monitor_ret, steps,
                   sessvars>>

\* Ctrl+C inside the try block: except KeyboardInterrupt.
InterruptInLoop ==
    /\ pc = "loop"
    /\ msgs' = msgs \cup {"stopped_by_user"}
    /\ pc' = "finally"
    /\ UNCHANGED <<config, readvars, logvars, cmdvars, serial_conn, running,
                   exit_code, port_ops, tx, monitor_ret, steps, sessvars>>

\* The process ends: daemon threads die with it.
Killed(t) == IF t \in {"none", "done"} THEN t ELSE "killed"

UnguardedPcs == {"connecting", "connected", "starting", "finally",
                 "disconnect", "join", "cmd_send", "cmd_wait",
                 "cmd_disconnect"}

\* Ctrl+C anywhere else in the main thread: KeyboardInterrupt is not
\* caught and the process ends with a traceback.
InterruptOutside ==
    /\ pc \in UnguardedPcs
    /\ msgs' = msgs \cup {"traceback"}
    /\ exit_code' = {1}
    /\ log_thread' = Killed(log_thread)
    /\ prev_thread' = Killed(prev_thread)
    /\ pc' = "exited"
    /\ UNCHANGED <<config, readvars, cmdvars, log_entry, file_state, file,
                   durable, serial_conn, running, port_ops, tx, monitor_ret,
                   steps, session, prev_entry>>

\* finally: self.running = False
StopRunning ==
    /\ pc = "finally"
    /\ running' = FALSE
    /\ steps' = steps \cup {"stop"}
    /\ pc' = "disconnect"
    /\ UNCHANGED <<config, readvars, logvars, cmdvars, serial_conn, msgs,
                   exit_code, port_ops, tx, monitor_ret, sessvars>>

\* A variant of disconnect() that leaves the port as it is.
DisconnectNoClose ==
    /\ pc \in {"disconnect", "cmd_disconnect"}
    /\ pc' = IF pc = "disconnect" THEN "join" ELSE "returned"
    /\ steps' = IF pc = "disconnect" THEN steps \cup {"close"} ELSE steps
    /\ UNCHANGED <<config, readvars, logvars, cmdvars, serial_conn, msgs,
                   running, exit_code, port_ops, tx, monitor_ret, sessvars>>

\* disconnect(), called from monitor()'s finally or from main().
Disconnect ==
    /\ pc \in {"disconnect", "cmd_disconnect"}
    /\ IF serial_conn = "open"
       THEN /\ serial_conn' = "closed"
            /\ msgs' = msgs \cup {"disconnected"}
       ELSE UNCHANGED <<serial_conn, msgs>>
    /\ pc' = IF pc = "disconnect" THEN "join" ELSE "returned"
    /\ steps' = IF pc = "disconnect" THEN steps \cup {"close"} ELSE steps
    /\ UNCHANGED <<config, readvars, logvars, cmdvars, running, exit_code,
                   port_ops, tx, monitor_ret, sessvars>>

\* serial_conn.close() raises: disconnect() has no handler, so the exception
\* leaves the finally block (the join is not reached) and then main().
DisconnectError ==
    /\ pc \in {"disconnect", "cmd_disconnect"}
    /\ serial_conn = "open"
    /\ msgs' = msgs \cup {"close_error"}
    /\ exit_code' = {1}
    /\ log_thread' = Killed(log_thread)
    /\ prev_thread' = Killed(prev_thread)
    /\ steps' = IF pc = "disconnect" THEN steps \cup {"close"} ELSE steps
    /\ pc' = "exited"
    /\ UNCHANGED <<config, readvars, cmdvars, log_entry, file_state, file,
                   durable, serial_conn, running, port_ops, tx, monitor_ret,
                   session, prev_entry>>

\* The log writer is inside a file operation, which can take any time.
InFileIO(t) == t \in {"open", "write", "flush"}

\* if log_thread: log_thread.join(timeout=2), then return True.  The join
\* ends when the thread has ended, or after 2 s; a thread that is not in
\* file I/O sees the cleared flag within its 1 s queue timeout.
Join ==
    /\ pc = "join"
    /\ \/ log_thread \in {"none", "done"}
       \/ InFileIO(log_thread)
    /\ monitor_ret' = {TRUE}
    /\ steps' = steps \cup {"join"}
    /\ pc' = "returned"
    /\ UNCHANGED <<config, readvars, logvars, cmdvars, serial_conn, running,
                   msgs, exit_code, port_ops, tx, sessvars>>

\* main() returns; nothing sets an exit status.
Exit ==
    /\ pc = "returned"
    /\ exit_code' = {0}
    /\ log_thread' = Killed(log_thread)
    /\ prev_thread' = Killed(prev_thread)
    /\ pc' = "exited"
    /\ UNCHANGED <<config, readvars, cmdvars, log_entry, file_state, file,
                   durable, serial_conn, running, msgs, port_ops, tx,
                   monitor_ret, steps, session, prev_entry>>

-----------------------------------------------------------------------------
(* --command mode: main() lines 170-175 *)

\* send_command(args.command) on the open port; the write succeeds.
CmdSendOk ==
    /\ pc = "cmd_send"
    /\ serial_conn = "open"
    /\ port_ops' = port_ops \cup {<<"write", serial_conn>>}
    /\ tx' = Append(tx, Encode(command) \o <<"LF">>)
    /\ msgs' = msgs \cup {"sent"}
    /\ pc' = "cmd_wait"
    /\ UNCHANGED <<config, readvars, logvars, cmdvars, serial_conn, running,
                   exit_code, monitor_ret, steps, sessvars>>

\* The write raises; send_command reports it and returns False.
CmdSendFail ==
    /\ pc = "cmd_send"
    /\ serial_conn = "open"
    /\ port_ops' = port_ops \cup {<<"write", serial_conn>>}
    /\ msgs' = msgs \cup {"send_failed"}
    /\ pc' = "cmd_wait"
    /\ UNCHANGED <<config, readvars, logvars, cmdvars, serial_conn, running,
                   exit_code, tx, monitor_ret, steps, sessvars>>

\* time.sleep(1)
CmdWait ==
    /\ pc = "cmd_wait"
    /\ pc' = "cmd_disconnect"
    /\ UNCHANGED <<config, readvars, logvars, cmdvars, serial_conn, running,
                   msgs, exit_code, port_ops, tx, monitor_ret, steps,
                   sessvars>>

-----------------------------------------------------------------------------
(* The log writer thread: ESPMonitor.log_writer() *)

\* A variant of the consumer that opens the log file for writing ('w').
LogOpenTruncate ==
    /\ log_thread = "open"
    /\ file_state' = "open"
    /\ file' = <<>>
    /\ log_thread' = "check"
    /\ UNCHANGED <<config, readvars, cmdvars, log_entry, durable, pc,
                   serial_conn, running, msgs, exit_code, port_ops, tx,
                   monitor_ret, steps, sessvars>>

\* open(self.log_file, 'a') succeeds.
LogOpen ==
    /\ log_thread = "open"
    /\ file_state' = "open"
    /\ log_thread' = "check"
    /\ UNCHANGED <<config, readvars, cmdvars, log_entry, file, durable, pc,
                   serial_conn, running, msgs, exit_code, port_ops, tx,
                   monitor_ret, steps, sessvars>>

\* open raises: except Exception, the thread ends.
LogOpenFail ==
    /\ log_thread = "open"
    /\ msgs' = msgs \cup {"log_error"}
    /\ log_thread' = "done"
    /\ UNCHANGED <<config, readvars, cmdvars, log_entry, file_state, file,
                   durable, pc, serial_conn, running, exit_code, port_ops, tx,
                   monitor_ret, steps, sessvars>>

\* while self.running: go on to the queue, or leave the with block, which
\* closes the file.
LogCheck ==
    /\ log_thread = "check"
    /\ IF running
       THEN /\ log_thread' = "get"
            /\ UNCHANGED <<file_state, durable>>
       ELSE /\ log_thread' = "done"
            /\ file_state' = "closed"
            /\ durable' = Len(file)
    /\ UNCHANGED <<config, readvars, cmdvars, log_entry, file, pc,
                   serial_conn, running, msgs, exit_code, port_ops, tx,
                   monitor_ret, steps, sessvars>>

\* A variant of the consumer that takes the newest entry of the queue.
LogGetNewest ==
    /\ log_thread = "get"
    /\ log_queue # <<>>
    /\ log_entry' = log_queue[Len(log_queue)]
    /\ log_queue' = SubSeq(log_queue, 1, Len(log_queue) - 1)
    /\ log_thread' = "write"
    /\ UNCHANGED <<config, cmdvars, stream, buffer, console, consumed,
                   enqueued, assembled, file_state, file, durable, pc,
                   serial_conn, running, msgs, exit_code, port_ops, tx,
                   monitor_ret, steps, sessvars>>

\* self.log_queue.get(timeout=1) returns the oldest entry.
LogGet ==
    /\ log_thread = "get"
    /\ log_queue # <<>>
    /\ log_entry' = Head(log_queue)
    /\ log_queue' = Tail(log_queue)
    /\ log_thread' = "write"
    /\ UNCHANGED <<config, cmdvars, stream, buffer, console, consumed,
                   enqueued, assembled, file_state, file, durable, pc,
                   serial_conn, running, msgs, exit_code, port_ops, tx,
                   monitor_ret, steps, sessvars>>

\* The queue stays empty for 1 s: queue.Empty, continue.
LogGetTimeout ==
    /\ log_thread = "get"
    /\ log_queue = <<>>
    /\ log_thread' = "check"
    /\ UNCHANGED <<config, readvars, cmdvars, log_entry, file_state, file,
                   durable, pc, serial_conn, running, msgs, exit_code,
                   port_ops, tx, monitor_ret, steps, sessvars>>

\* A variant of the consumer that writes without flushing.
LogWriteNoFlush ==
    /\ log_thread = "write"
    /\ file' = Append(file, log_entry)
    /\ log_thread' = "check"
    /\ UNCHANGED <<config, readvars, cmdvars, log_entry, file_state, durable,
                   pc, serial_conn, running, msgs, exit_code, port_ops, tx,
                   monitor_ret, steps, sessvars>>

\* f.write(log_entry)
LogWrite ==
    /\ log_thread = "write"
    /\ file' = Append(file, log_entry)
    /\ log_thread' = "flush"
    /\ UNCHANGED <<config, readvars, cmdvars, log_entry, file_state, durable,
                   pc, serial_conn, running, msgs, exit_code, port_ops, tx,
                   monitor_ret, steps, sessvars>>

\* f.write or f.flush raises: the with block closes the file, except
\* Exception reports, the thread ends.
LogWriteFail ==
    /\ log_thread \in {"write", "flush"}
    /\ file_state' = "closed"
    /\ msgs' = msgs \cup {"log_error"}
    /\ log_thread' = "done"
    /\ UNCHANGED <<config, readvars, cmdvars, log_entry, file, durable, pc,
                   serial_conn, running, exit_code, port_ops, tx, monitor_ret,
                   steps, sessvars>>

\* f.flush()
LogFlush ==
    /\ log_thread = "flush"
    /\ durable' = Len(file)
    /\ log_thread' = "check"
    /\ UNCHANGED <<config, readvars, cmdvars, log_entry, file_state, file, pc,
                   serial_conn, running, msgs, exit_code, port_ops, tx,
                   monitor_ret, steps, sessvars>>

-----------------------------------------------------------------------------
(* An operator thread using the instance while monitor() runs *)

InjectedCommands == {<<"a">>}

\* A variant of send_command without the test at line 133.
SendCheckNoTest ==
    /\ pc \notin {"main", "exited"}
    /\ cmd_pc = "idle"
    /\ cmd_calls < MaxCalls
    /\ cmd_calls' = cmd_calls + 1
    /\ cmd_pc' = "checked"
    /\ UNCHANGED <<config, readvars, logvars, pc, serial_conn, running,
                   exit_code, port_ops, tx, monitor_ret, msgs, cmd_result,
                   steps, api_disc, sessvars>>

\* send_command, line 133: the connection test.
SendCheck ==
    /\ pc \notin {"main", "exited"}
    /\ cmd_pc = "idle"
    /\ cmd_calls < MaxCalls
    /\ cmd_calls' = cmd_calls + 1
    /\ IF serial_conn = "open"
       THEN /\ cmd_pc' = "checked"
            /\ UNCHANGED <<msgs, cmd_result>>
       ELSE /\ msgs' = msgs \cup {"not_connected"}
            /\ cmd_result' = {FALSE}
            /\ cmd_pc' = "idle"
    /\ UNCHANGED <<config, readvars, logvars, pc, serial_conn, running,
                   exit_code, port_ops, tx, monitor_ret, steps, api_disc,
                   sessvars>>

\* send_command, line 138: the write.  On a closed port pyserial raises,
\* on an open one the transport may fail; except Exception returns False.
SendWrite ==
    /\ pc # "exited"
    /\ cmd_pc = "checked"
    /\ port_ops' = port_ops \cup {<<"write", serial_conn>>}
    /\ \/ /\ serial_conn = "open"
          /\ \E c \in InjectedCommands : tx' = Append(tx, Encode(c) \o <<"LF">>)
          /\ msgs' = msgs \cup {"sent"}
          /\ cmd_result' = {TRUE}
       \/ /\ msgs' = msgs \cup {"send_failed"}
          /\ cmd_result' = {FALSE}
          /\ UNCHANGED tx
    /\ cmd_pc' = "idle"
    /\ UNCHANGED <<config, readvars, logvars, cmd_calls, pc, serial_conn,
                   running, exit_code, monitor_ret, steps, api_disc,
                   sessvars>>

\* The operator clears the public running flag to stop the session.
ClearRunning ==
    /\ pc = "loop"
    /\ running
    /\ running' = FALSE
    /\ UNCHANGED <<config, readvars, logvars, cmdvars, pc, serial_conn, msgs,
                   exit_code, port_ops, tx, monitor_ret, steps, sessvars>>

-----------------------------------------------------------------------------
\* disconnect() called on the instance from the second thread. close() may
\* raise; disconnect() has no handler, so the caller gets the exception and
\* the port is left as it was.
ApiDisconnect ==
    /\ pc \notin {"main", "exited"}
    /\ api_disc < MaxDisc
    /\ api_disc' = api_disc + 1
    /\ \/ /\ serial_conn # "open"
          /\ UNCHANGED <<serial_conn, msgs>>
       \/ /\ serial_conn = "open"
          /\ serial_conn' = "closed"
          /\ msgs' = msgs \cup {"disconnected"}
       \/ /\ serial_conn = "open"
          /\ msgs' = msgs \cup {"close_error"}
          /\ UNCHANGED serial_conn
    /\ UNCHANGED <<config, readvars, logvars, cmd_pc, cmd_calls, cmd_result,
                   pc, running, exit_code, port_ops, tx, monitor_ret, steps,
                   sessvars>>

\* A thread is still running (not yet started, ended or killed otherwise).
Alive(t) == t \notin {"none", "done", "killed"}

\* monitor() is called again on the same instance after it has returned.
\* log_thread and buffer are locals of the call: the new call starts with
\* log_thread = None (line 81) and buffer = "" (line 92); a log thread of
\* the earlier call that outlived join(timeout=2) keeps running unreferenced.
\* self.log_queue, self.running and the log file are those of the instance.
CallAgain ==
    /\ pc = "returned"
    /\ monitor_ret # {}
    /\ session < MaxSessions
    /\ ~(Alive(log_thread) /\ Alive(prev_thread))
    /\ session' = session + 1
    /\ monitor_ret' = {}
    /\ steps' = {}
    /\ buffer' = <<>>
    /\ IF Alive(log_thread)
       THEN /\ prev_thread' = log_thread
            /\ prev_entry' = log_entry
            /\ log_entry' = None
       ELSE UNCHANGED <<prev_thread, prev_entry, log_entry>>
    /\ log_thread' = "none"
    /\ pc' = "connecting"
    /\ UNCHANGED <<config, cmdvars, stream, console, log_queue, consumed,
                   enqueued, assembled, file_state, file, durable,
                   serial_conn, running, msgs, exit_code, port_ops, tx>>

\* One step of the log thread left over from the earlier call: log_writer,
\* lines 41-56, as for the current thread.
PrevLogStep ==
    /\ pc # "exited"
    /\ \/ /\ prev_thread = "open"
          /\ prev_thread' = "check"
          /\ UNCHANGED <<prev_entry, log_queue, file, durable, msgs>>
       \/ /\ prev_thread = "check"
          /\ prev_thread' = IF running THEN "get" ELSE "done"
          /\ UNCHANGED <<prev_entry, log_queue, file, durable, msgs>>
       \/ /\ prev_thread = "get"
          /\ IF log_queue # <<>>
             THEN /\ prev_entry' = Head(log_queue)
                  /\ log_queue' = Tail(log_queue)
                  /\ prev_thread' = "write"
             ELSE /\ prev_thread' = "check"
                  /\ UNCHANGED <<prev_entry, log_queue>>
          /\ UNCHANGED <<file, durable, msgs>>
       \/ /\ prev_thread = "write"
          /\ file' = Append(file, prev_entry)
          /\ prev_thread' = "flush"
          /\ UNCHANGED <<prev_entry, log_queue, durable, msgs>>
       \/ /\ prev_thread = "flush"
          /\ durable' = Len(file)
          /\ prev_thread' = "check"
          /\ UNCHANGED <<prev_entry, log_queue, file, msgs>>
       \/ /\ InFileIO(prev_thread)
          /\ msgs' = msgs \cup {"log_error"}
          /\ prev_thread' = "done"
          /\ UNCHANGED <<prev_entry, log_queue, file, durable>>
    /\ UNCHANGED <<config, cmdvars, stream, buffer, console, consumed,
                   enqueued, assembled, log_thread, log_entry, file_state,
                   pc, serial_conn, running, exit_code, port_ops, tx,
                   monitor_ret, steps, session>>

MainStep ==
    \/ Construct
    \/ ConstructFail
    \/ Call
    \/ ConnectOk
    \/ ConnectFail
    \/ SetRunning
    \/ StartLogThread
    \/ \E n \in 1..Len(stream) : LoopRead(n)
    \/ LoopIdle
    \/ LoopIOError
    \/ InterruptInLoop
    \/ InterruptOutside
    \/ StopRunning
    \/ Disconnect
    \/ DisconnectError
    \/ Join
    \/ Exit
    \/ CmdSendOk
    \/ CmdSendFail
    \/ CmdWait

LogStep ==
    /\ pc # "exited"
    /\ \/ LogOpen
       \/ LogOpenFail
       \/ LogCheck
       \/ LogGet
       \/ LogGetTimeout
       \/ LogWrite
       \/ LogWriteFail
       \/ LogFlush

\* The program as main() runs it.
Next == MainStep \/ LogStep

Spec == Init /\ [][Next]_vars

\* The instance used from a second thread while monitor() runs.
NextApi == Next \/ SendCheck \/ SendWrite \/ ClearRunning \/ LoopExit

SpecApi == InitApi /\ [][NextApi]_vars

\* The program on input with malformed bytes, logging to a file.
SpecDecode == InitDecode /\ [][Next]_vars

\* The instance with disconnect() called from a second thread at any time.
NextDisc == Next \/ ApiDisconnect

SpecDisc == InitApi /\ [][NextDisc]_vars

\* The instance with monitor() called more than once.
NextSessions == Next \/ CallAgain \/ PrevLogStep

SpecSessions == InitApi /\ [][NextSessions]_vars

-----------------------------------------------------------------------------
(* Reference definitions used to state the properties *)

\* All bytes read from the port so far, as one byte string.
BytesRead == consumed

\* The segments of text s that precede each "LF", in order.
RECURSIVE Segments(_)
Segments(s) ==
    IF HasLF(s)
    THEN <<SubSeq(s, 1, FirstLF(s) - 1)>>
             \o Segments(SubSeq(s, FirstLF(s) + 1, Len(s)))
    ELSE <<>>

\* The text of s after its last "LF".
RECURSIVE AfterLastLF(_)
AfterLastLF(s) ==
    IF HasLF(s) THEN AfterLastLF(SubSeq(s, FirstLF(s) + 1, Len(s))) ELSE s

\* A segment without its trailing carriage return, if it has one.
StripCR(seg) ==
    IF seg # <<>> /\ seg[Len(seg)] = "CR" THEN SubSeq(seg, 1, Len(seg) - 1)
    ELSE seg

Formatted(lines) ==
    [i \in 1..Len(lines) |-> format_line(lines[i], show_timestamps)]

\* The filter rule as specified: no pattern passes everything.
Passes(line) == filter_pattern = None \/ Search(filter_pattern, line)

InMonitor == pc \in {"starting", "loop", "finally", "disconnect", "join"}

-----------------------------------------------------------------------------
(* Properties *)

\* C1: chunking does not change output: the lines printed after any
\* sequence of chunks are the lines printed when the same bytes arrive as
\* one chunk.
C1_ChunkingPreservesOutput ==
    console = ProcessLines(Decode(BytesRead), <<>>, <<>>).out

\* C2: a line that is only a terminator, or a carriage return and a
\* terminator, is forwarded as an empty record (here with no filter set).
C2_EmptyLineForwarded ==
    (filter_pattern = None /\ BytesRead \in {<<"LF">>, <<"CR", "LF">>})
        => console = <<format_line(<<>>, show_timestamps)>>

\* C3: with no filter, the records emitted are exactly the segments before
\* each terminator received so far, in order, and the pending buffer is
\* exactly the text after the last terminator.
C3_ExactSegments ==
    filter_pattern = None =>
        /\ console = Formatted([i \in 1..Len(Segments(Decode(BytesRead))) |->
                                   StripCR(Segments(Decode(BytesRead))[i])])
        /\ (InMonitor => buffer = AfterLastLF(Decode(BytesRead)))

\* C4: a completed line is forwarded iff the filter passes it (every line
\* when there is no filter), and to the console and the log queue alike.
C4_FilterForwarding ==
    /\ console = Formatted(SelectSeq(assembled, Passes))
    /\ log_file => enqueued = Entries(console)

\* C5: after a session that ended without a log error and whose log writer
\* has ended, every entry that was put on the queue is in the log file.
C5_ShutdownDrains ==
    (pc = "exited" /\ monitor_ret = {TRUE} /\ log_thread = "done"
        /\ "log_error" \notin msgs)
        => (file = enqueued /\ durable = Len(enqueued))

\* C6: while the log writer is inside a file operation, the read loop can
\* run its next iteration whatever the chunk that has arrived: reading it
\* and printing and queueing its lines waits for nothing.
C6_ConsoleNotStalled ==
    (pc = "loop" /\ running /\ InFileIO(log_thread))
        => \A n \in 1..Len(stream) : CanRead(n)

\* C6 witness: the log writer holds a dequeued entry it has not written,
\* and the read loop has a complete line still to read.
C6_Witness ==
    /\ pc = "loop" /\ running
    /\ log_thread = "write"
    /\ HasLF(stream)
    /\ Len(console) = 1

\* C7: during a monitoring session no read and no write is performed on a
\* closed connection, however send_command interleaves with shutdown.
C7_NoOpOnClosedPort ==
    ~CommandMode => \A op \in port_ops : op[2] = "open"

\* The controller state of monitor() (not used with --command).
ControllerState ==
    CASE pc = "main" \/ "filter_error" \in msgs -> "Idle"
      [] pc = "idle" -> "Idle"
      [] pc \in {"connecting", "connected"} -> "Connecting"
      [] pc \in {"starting", "loop"} -> "Monitoring"
      [] pc \in {"finally", "disconnect", "join"} -> "ShuttingDown"
      [] pc \in {"returned", "exited"} /\ "filter_error" \notin msgs
             -> "Stopped"
      [] OTHER -> "Command"

AllowedTransitions ==
    {<<"Idle", "Connecting">>, <<"Connecting", "Monitoring">>,
     <<"Connecting", "Stopped">>, <<"Monitoring", "ShuttingDown">>,
     <<"ShuttingDown", "Stopped">>}

\* C8: the controller moves only along Idle, Connecting, Monitoring,
\* ShuttingDown, Stopped (Connecting may fail to Stopped); Monitoring is
\* left only through the shutdown path and Stopped is final.
C8_StateMachine ==
    [][~CommandMode =>
          \/ ControllerState' = ControllerState
          \/ <<ControllerState, ControllerState'>> \in AllowedTransitions]_vars

\* C9: after a failed connect, monitor() has returned False and the
\* session never started: running is False, no log writer thread, no log
\* file, no operation on the port, nothing printed or queued.
C9_ConnectFailure ==
    "connect_failed" \in msgs =>
        /\ pc \in {"returned", "exited"}
        /\ ~CommandMode => monitor_ret = {FALSE}
        /\ ~running
        /\ serial_conn = "none"
        /\ log_thread = "none"
        /\ file_state = "unopened"
        /\ port_ops = {}
        /\ tx = <<>>
        /\ console = <<>> /\ enqueued = <<>>

\* C9 witness: monitor() has returned after a failed connect.
C9_Witness ==
    /\ "connect_failed" \in msgs
    /\ ~CommandMode
    /\ pc = "exited"

\* C10: the exit code is 0 after a clean stop and nonzero after a failed
\* connect, in both modes.
C10_ExitCodes ==
    pc = "exited" =>
        /\ "connect_failed" \in msgs => (exit_code # {} /\ 0 \notin exit_code)
        /\ (monitor_ret = {TRUE} \/ (CommandMode /\ serial_conn = "closed"))
               => exit_code = {0}

\* C11: when --command is given the process connects, writes the command
\* text and a newline once, waits, disconnects, in that order, and never
\* monitors: running stays False, no log writer is started, nothing is
\* printed or enqueued; after a failed connect there is no write and no
\* disconnect.
C11_CommandMode ==
    command # None =>
        /\ ~running
        /\ log_thread = "none"
        /\ enqueued = <<>> /\ console = <<>>
        /\ Len(tx) <= 1
        /\ tx # <<>> => tx[1] = Encode(command) \o <<"LF">>
        /\ pc \in {"main", "idle", "connecting"} =>
               (tx = <<>> /\ port_ops = {} /\ serial_conn = "none")
        /\ serial_conn = "closed" =>
               (pc \in {"returned", "exited"} /\ port_ops # {})
        /\ "connect_failed" \in msgs =>
               (port_ops = {} /\ tx = <<>> /\ "disconnected" \notin msgs)

\* C12: shutdown runs every step: once the finally block has cleared
\* running, the close of the connection and the join of the log writer are
\* both performed before a logging session's process ends, also when the
\* close raises (Ctrl+C during the shutdown itself is left aside).
C12_ShutdownRunsAllSteps ==
    (pc = "exited" /\ log_file /\ "stop" \in steps
         /\ "traceback" \notin msgs) =>
        {"close", "join"} \subseteq steps

\* The log writer has ended on an error raised by a write or a flush.
LogWriteFailed ==
    /\ log_thread = "done"
    /\ file_state = "closed"
    /\ "log_error" \in msgs

\* C13: after the log writer has hit a write error the read loop stops: no
\* further line is printed and no further record is enqueued.
C13_WriteErrorStopsLoop ==
    [][LogWriteFailed => (console' = console /\ enqueued' = enqueued)]_vars

\* C14: a filter pattern that does not compile stops the process in the
\* constructor: connect() is never called, so the port is never opened or
\* used, no log writer is started and no log file is opened.
C14_InvalidFilterFailsFirst ==
    Malformed(filter_arg) =>
        /\ pc \in {"main", "exited"}
        /\ filter_pattern = None
        /\ serial_conn = "none"
        /\ port_ops = {}
        /\ log_thread = "none"
        /\ file_state = "unopened"
        /\ msgs \subseteq {"filter_error"}
        /\ monitor_ret = {}

\* C14 witness: a run with --log and a malformed --filter has ended in the
\* constructor.
C14_Witness ==
    /\ "filter_error" \in msgs
    /\ log_file
    /\ pc = "exited"

\* C15: disconnect() is idempotent and never raises: close() never fails,
\* a closed port stays closed (it is closed at most once), and a call made
\* while the port is absent or closed changes nothing.
C15_DisconnectIdempotent ==
    [][/\ "close_error" \notin msgs'
       /\ serial_conn = "closed" => serial_conn' = "closed"
       /\ (api_disc' # api_disc /\ serial_conn # "open") =>
              UNCHANGED <<config, readvars, logvars, cmd_pc, cmd_calls,
                          cmd_result, pc, serial_conn, running, msgs,
                          exit_code, port_ops, tx, monitor_ret, steps>>]_vars

\* C16: send_command called while the connection is absent or closed
\* returns False at once: nothing is written, no port operation is made,
\* and the connection, the running flag and the queue are left as they were.
C16_SendFailsFast ==
    [][(cmd_calls' = cmd_calls + 1 /\ serial_conn # "open") =>
           /\ cmd_result' = {FALSE}
           /\ cmd_pc' = "idle"
           /\ "not_connected" \in msgs'
           /\ tx' = tx
           /\ port_ops' = port_ops
           /\ serial_conn' = serial_conn
           /\ running' = running
           /\ log_queue' = log_queue]_vars

\* C16 witness: send_command has been refused on an instance that was
\* never connected.
C16_Witness ==
    /\ "not_connected" \in msgs
    /\ cmd_result = {FALSE}
    /\ serial_conn = "none"
    /\ port_ops = {}
    /\ tx = <<>>

\* C17: the log queue is bounded: it has a finite capacity (a maxsize
\* above zero) and never holds more entries than that.
C17_QueueBounded ==
    log_queue # <<>> =>
        (QueueCapacity > 0 /\ Len(log_queue) <= QueueCapacity)

\* C18: the error that ends the read loop is reported after cleanup: when
\* its message has been printed the connection is closed and the log
\* writer has stopped.
C18_ErrorAfterCleanup ==
    "monitor_error" \in msgs =>
        /\ serial_conn = "closed"
        /\ ~running
        /\ log_thread \in {"none", "done", "killed"}

\* C19: cancellation completes: once the loop has been left or running is
\* False no further chunk is read or line printed, and a session whose
\* running flag was set ends with monitor() having returned.
C19_CancellationCompletes ==
    [][/\ (pc # "loop" \/ ~running) =>
              (consumed' = consumed /\ console' = console)
       /\ (pc' = "exited" /\ (running' \/ "stop" \in steps')) =>
              monitor_ret' = {TRUE}]_vars

\* C20: when monitor() has returned from a session with a log file (and no
\* log error), the log writer has ended, the file is not open and
\* everything written to it has been flushed.
C20_LogClosedOnReturn ==
    (monitor_ret = {TRUE} /\ pc = "returned" /\ log_file
         /\ "log_error" \notin msgs) =>
        /\ log_thread = "done"
        /\ file_state # "open"
        /\ durable = Len(file)

\* C22: whenever monitor() has returned after a successful connect, the
\* serial connection is closed.
C22_ClosedOnReturn ==
    monitor_ret = {TRUE} => serial_conn = "closed"

\* C22 witness: monitor() has returned from a session that ended because
\* the running flag was cleared (no interrupt, no read error).
C22_Witness ==
    /\ monitor_ret = {TRUE}
    /\ serial_conn = "closed"
    /\ "stopped_by_user" \notin msgs
    /\ "monitor_error" \notin msgs

\* C23: a failed write of an injected command ends the session: once
\* send_command has reported the failure the read loop reads no further
\* chunk and prints no further line.
C23_SendFailureStopsSession ==
    [][("send_failed" \in msgs /\ ~CommandMode) =>
           (consumed' = consumed /\ console' = console)]_vars

\* C24: the console shows the forwarded lines in arrival order, and the
\* lines written to the log file are at every moment an in-order prefix of
\* the lines already printed (none unprinted, reordered or duplicated).
C24_ConsoleOrderLogPrefix ==
    /\ console = Formatted(SelectSeq(assembled, Forwarded))
    /\ Len(file) <= Len(console)
    /\ file = SubSeq(Entries(console), 1, Len(file))

\* C24 witness: two different lines have been written to the log file.
C24_Witness ==
    /\ log_file
    /\ Len(file) = 2
    /\ file[1] # file[2]

\* The input read so far is plain ASCII (no byte of a multi-byte character).
AsciiInput == \A i \in 1..Len(consumed) : consumed[i] \notin {"C3", "A9"}

\* C25: the content of each line taken off the buffer is the segment before
\* its terminator with one trailing carriage return removed, if present,
\* and nothing else changed (checked on ASCII input).
C25_OneCRStripped ==
    AsciiInput =>
        assembled = [i \in 1..Len(Segments(Decode(consumed))) |->
                        StripCR(Segments(Decode(consumed))[i])]

\* Entries the log writer has taken from the queue so far.
Dequeued == Len(enqueued) - Len(log_queue)

\* C28: the log writer flushes after every write: at any moment at most
\* one entry has been taken from the queue without being durably written.
C28_FlushAfterEveryWrite ==
    /\ durable <= Dequeued
    /\ Dequeued <= durable + 1

\* C28 witness: the second entry has been written and not yet flushed, the
\* first is durable.
C28_Witness ==
    /\ log_thread = "flush"
    /\ Dequeued = 2
    /\ durable = 1

\* C29: shutdown never discards an entry the log writer has taken from the
\* queue: when the process ends after monitor() has returned, with no log
\* error, every dequeued entry has been written and flushed.
C29_DequeuedIsWritten ==
    (pc = "exited" /\ monitor_ret = {TRUE} /\ "log_error" \notin msgs) =>
        durable = Dequeued

\* The text that lines and the rest after them were split from.
RECURSIVE Unsplit(_, _)
Unsplit(lines, rest) ==
    IF lines = <<>> THEN rest
    ELSE Head(lines) \o <<"LF">> \o Unsplit(Tail(lines), rest)

HasPlaceholder(text) == \E i \in 1..Len(text) : text[i] = "U+FFFD"

\* C26: a chunk with malformed bytes is never fatal: the read that takes it
\* leaves the controller in the loop with no error reported, its text, with
\* U+FFFD for each invalid byte, goes into the lines and the buffer with
\* nothing lost, and the lines are printed and queued like any other.
C26_MalformedNeverFatal ==
    [][consumed' # consumed =>
           LET chunk == SubSeq(stream, 1, Len(consumed') - Len(consumed))
               new == SubSeq(assembled', Len(assembled) + 1, Len(assembled'))
           IN  /\ pc' = "loop" /\ running' /\ msgs' = msgs
               /\ (\A i \in 1..Len(consumed') : consumed'[i] # "CR") =>
                      Unsplit(new, buffer') = buffer \o Decode(chunk)
               /\ console' = Formatted(SelectSeq(assembled', Forwarded))
               /\ log_file => enqueued' = Entries(console')]_vars

\* C26 witness: a line with a placeholder is on the console and in the log
\* file, and the read loop is still running.
C26_Witness ==
    /\ pc = "loop" /\ running
    /\ \E i \in 1..Len(console) : HasPlaceholder(console[i])
    /\ \E i \in 1..Len(file) : HasPlaceholder(file[i])

\* C21: at most one log consumer is active at any time, also across
\* successive monitor() calls on one instance, and only the read loop
\* enqueues.
C21_SingleConsumer ==
    [][/\ ~(Alive(log_thread') /\ Alive(prev_thread'))
       /\ enqueued' # enqueued => consumed' # consumed]_vars

\* C30: a later monitor() call on the instance starts with an empty pending
\* buffer and an empty log queue: until it has read its first chunk nothing
\* of an earlier call is left in either.
C30_SessionsIndependent ==
    (session > 1 /\ pc \in {"connecting", "connected", "starting"}) =>
        (buffer = <<>> /\ log_queue = <<>>)

\* One formatted line and its newline: a single "LF", at the end.
OneLine(e) ==
    /\ e # <<>>
    /\ \A i \in 1..Len(e) : (e[i] = "LF") <=> (i = Len(e))

\* C27: the log file is append-only: every step leaves the content it had
\* as a prefix of the new content (so what was there before a session
\* started stays), and a write adds exactly one queued line ending in a
\* newline.
C27_AppendOnly ==
    [][/\ Len(file') >= Len(file)
       /\ SubSeq(file', 1, Len(file)) = file
       /\ file' # file =>
              /\ Len(file') = Len(file) + 1
              /\ OneLine(file'[Len(file')])
              /\ \E i \in 1..Len(enqueued) : enqueued[i] = file'[Len(file')]]_vars

\* C27 witness: a second session has started its log thread, which is about
\* to open a file that holds a line of the first session.
C27_Witness ==
    /\ session = 2
    /\ log_thread = "open"
    /\ prev_thread = "none"
    /\ Len(file) = 1

=============================================================================
